---- MODULE Spec2Model ----
(***************************************************************************)
(* Epidemiological analytics engine of covid-epidemic-dashboard:           *)
(*   src/src/rt.py    renewal-equation R_t estimator and its kernel        *)
(*   src/src/seir.py  SEIR compartmental simulator                         *)
(*   src/src/analysis.py  intervention counterfactual                      *)
(*   src/src/forecast.py  forecaster (Prophet model, linear-trend fallback)*)
(*   src/src/ingest.py    get_who_data, the chain of WHO data sources       *)
(*   src/src/hospitalizations.py  get_hospitalization_data                  *)
(*   src/api/main.py      the HTTP endpoints and their validation           *)
(*   src/app/streamlit_app.py  the requests the dashboard sends             *)
(*                                                                         *)
(* Real numbers are carried as exact fractions of integers:                *)
(*   - a kernel is [num, den]: weight i is num[i] / den;                   *)
(*   - the smoothed incidence column I is held in units of 1/IUnit, where  *)
(*     IUnit is a common multiple of every window count, so that every     *)
(*     rolling mean is an integer number of units;                         *)
(*   - an R_t entry is [def, num, den]: NaN when def is FALSE, otherwise   *)
(*     the fraction num / den.                                             *)
(***************************************************************************)
EXTENDS Integers, Sequences, FiniteSets, TLC

VARIABLES
    \* ---- estimate_rt (src/src/rt.py) ----
    df,                \* the caller's frame: rows [date, cases]
    serial_interval,   \* mean serial interval, in tenths of a day
    window,            \* smoothing window
    rt_pc,             \* position in estimate_rt
    sdf,               \* the local frame after sort_values / fillna
    I,                 \* smoothed incidence column df['I'], in units of 1/IUnit
    k_max,             \* kernel length
    w,                 \* kernel returned by _discrete_gamma_pmf
    t,                 \* loop index (0-based, as in the code)
    Rt,                \* the list Rt built by the loop
    denom,             \* denom as computed in each iteration (0 where none is)
    out,               \* the returned frame: rows [date, R_t]
    \* ---- simulate_seir (src/src/seir.py) ----
    args,              \* N, E0, I0, R0, beta, sigma, gamma, days
    seir_pc,           \* position in simulate_seir
    ret,               \* rows of the odeint result, one per time point
    seir_out,          \* the returned dictionary
    \* ---- analyze_intervention_impact (src/src/analysis.py) ----
    iv_df,             \* the caller's frame: rows [date, cases]
    effectiveness,     \* in tenths
    iv_pc,             \* position in analyze_intervention_impact
    iv_out,            \* the returned dictionary
    \* ---- fit_forecast (src/src/forecast.py) ----
    fc_df,             \* the caller's frame: rows [date, cases]
    horizon,           \* number of days to forecast
    country_name,      \* "" for None
    PROPHET_AVAILABLE, \* whether the import of prophet succeeded
    fc_pc,             \* position in fit_forecast
    model,             \* the models handed to fit, in the order of the calls
    holidays,          \* what became of add_country_holidays
    forecast,          \* model.predict(future): rows [ds, yhat, yhat_lower, yhat_upper]
    fc_out,            \* the returned pair [forecast_df, seasonality_df]
    \* ---- get_who_data (src/src/ingest.py) ----
    who_country,       \* the country asked for
    who_outcome,       \* what each source does when called, in the order of `sources`
    who_pc,            \* position in get_who_data
    who_i,             \* index of the source the loop is at (1-based)
    who_calls,         \* the sources called so far, in call order
    who_ret,           \* the returned frame
    \* ---- get_hospitalization_data (src/src/hospitalizations.py) ----
    hosp_country,      \* the country asked for
    jhu,               \* what get_jhu_data does: "raises" or "returns"
    cases_df,          \* the frame get_jhu_data returns: rows [date, cases]
    hosp_pc,           \* position in get_hospitalization_data
    hosp_i,            \* loop index i (0-based, as in the code)
    rate,              \* hospitalization rate, in percent
    current_hospitalizations,  \* running hospital occupancy, in units of 1/HospUnit
    current_icu,       \* running ICU occupancy, in units of 1/IcuUnit
    hosp_data,         \* the list hosp_data
    hosp_ret,          \* the returned frame
    \* ---- the API (src/api/main.py) and the dashboard (src/app/streamlit_app.py) ----
    api_origin,        \* "client", or the dashboard button that sent the request
    api_env,           \* PROPHET_AVAILABLE of the server, what the data source gives
    api_req,           \* the request: endpoint, keys of the body, values
    api_pc,            \* position in the handler
    api_df,            \* the frame validate_time_series_data returned
    api_called,        \* the function of src/src the handler called, "" if none
    api_exc,           \* the exception raised inside the handler, if any
    api_status,        \* HTTP status of the response, 0 before it
    api_body,          \* the JSON body of the response
    dash_pc            \* what became of the dashboard's reading of the response

rtVars   == <<df, serial_interval, window, rt_pc, sdf, I, k_max, w, t, Rt, denom, out>>
seirVars == <<args, seir_pc, ret, seir_out>>
ivVars   == <<iv_df, effectiveness, iv_pc, iv_out>>
fcVars   == <<fc_df, horizon, country_name, PROPHET_AVAILABLE, fc_pc, model, holidays,
              forecast, fc_out>>
whoVars  == <<who_country, who_outcome, who_pc, who_i, who_calls, who_ret>>
hospVars == <<hosp_country, jhu, cases_df, hosp_pc, hosp_i, rate, current_hospitalizations,
              current_icu, hosp_data, hosp_ret>>
apiVars  == <<api_origin, api_env, api_req, api_pc, api_df, api_called, api_exc, api_status,
              api_body, dash_pc>>
extVars  == <<whoVars, hospVars, apiVars>>
vars     == <<df, serial_interval, window, rt_pc, sdf, I, k_max, w, t, Rt, denom, out,
              args, seir_pc, ret, seir_out,
              iv_df, effectiveness, iv_pc, iv_out,
              fc_df, horizon, country_name, PROPHET_AVAILABLE, fc_pc, model, holidays,
              forecast, fc_out,
              who_country, who_outcome, who_pc, who_i, who_calls, who_ret,
              hosp_country, jhu, cases_df, hosp_pc, hosp_i, rate, current_hospitalizations,
              current_icu, hosp_data, hosp_ret,
              api_origin, api_env, api_req, api_pc, api_df, api_called, api_exc, api_status,
              api_body, dash_pc>>

----------------------------------------------------------------------------
(* Bounds of the model *)

MaxLen == 4
MaxCase == 2
MaxWin == 3
MaxDays == 3
SubSteps == 2
MaxHorizon == 2

\* A missing case value (NaN in the cases column).
NaNCase == 0 - 1

\* Fixed-point scale of the tabulated gamma CDF.
Scale == 10^4

\* Mean serial intervals the model draws, in tenths of a day (0.3, 0.5, 1.0, 1.5).
MeanSIs == {3, 5, 10, 15}

\* 1 / 1e-8: the no-information threshold of the renewal denominator.
TolInv == 100000000

----------------------------------------------------------------------------
(* Generic helpers *)

Max(a, b) == IF a >= b THEN a ELSE b
Min(a, b) == IF a <= b THEN a ELSE b

RECURSIVE SumSeq(_)
SumSeq(s) == IF s = <<>> THEN 0 ELSE Head(s) + SumSeq(Tail(s))

RECURSIVE Gcd(_, _)
Gcd(a, b) == IF b = 0 THEN a ELSE Gcd(b, a % b)

RECURSIVE LcmUpTo(_)
LcmUpTo(n) == IF n <= 1 THEN 1 ELSE LET l == LcmUpTo(n - 1) IN (l * n) \div Gcd(l, n)

\* s[::-1]
Reverse(s) == [i \in 1..Len(s) |-> s[Len(s) + 1 - i]]

\* np.sum(a * b) for two arrays of the same length
Dot(a, b) == SumSeq([i \in 1..Len(a) |-> a[i] * b[i]])

NaN == [def |-> FALSE, num |-> 0, den |-> 1]
Frac(n, d) == [def |-> TRUE, num |-> n, den |-> d]

----------------------------------------------------------------------------
(* src/src/rt.py : _discrete_gamma_pmf *)

\* scipy.stats.gamma.cdf(x, a = 2.0, scale = mean_si / 2.0), tabulated:
\* round(Scale * (1 - exp(-x/scale) * (1 + x/scale))) for the mean serial
\* intervals the model draws (in tenths of a day) and for 4.0 days.
GammaCdfTable(mean_si) ==
    CASE mean_si = 3  -> <<9902, 10000, 10000>>
      [] mean_si = 5  -> <<9084, 9970, 9999, 10000>>
      [] mean_si = 10 -> <<5940, 9084, 9826, 9970, 9995, 9999>>
      [] mean_si = 15 -> <<3849, 7452, 9084, 9694, 9902, 9970, 9991, 9997, 9999>>
      [] mean_si = 40 -> <<902, 2642, 4422, 5940, 7127, 8009, 8641, 9084, 9389, 9596,
                           9734, 9826, 9887, 9927, 9953, 9970, 9981, 9988, 9992, 9995,
                           9997>>

GammaCdf(x, mean_si) == IF x <= 0 THEN 0 ELSE GammaCdfTable(mean_si)[x]

\* pmf = np.maximum(cdf - cdf_prev, 0), in units of 1/Scale
RawPmf(kmax, mean_si) ==
    [s \in 1..kmax |-> Max(GammaCdf(s, mean_si) - GammaCdf(s - 1, mean_si), 0)]

\* Mutant: the kernel is returned without the division by its sum.
DiscreteGammaPmfUnnormalized(kmax, mean_si) ==
    [num |-> RawPmf(kmax, mean_si), den |-> Scale]

\* if pmf.sum() > 0: pmf = pmf / pmf.sum(); return pmf
DiscreteGammaPmf(kmax, mean_si) ==
    LET pmf == RawPmf(kmax, mean_si)
    IN  IF SumSeq(pmf) > 0
        THEN [num |-> pmf, den |-> SumSeq(pmf)]
        ELSE [num |-> pmf, den |-> Scale]

----------------------------------------------------------------------------
(* src/src/rt.py : estimate_rt, the straight-line part (lines 17-22) *)

Dates(frame) == {frame[i].date : i \in 1..Len(frame)}

\* Mutant: the frame is used in the caller's row order.
SortValuesNone(frame) == frame

\* df.sort_values('date'): the rows in increasing date order; rows of the
\* same date keep their order (frames of fewer than 16 rows)
SortValues(frame) ==
    [i \in 1..Len(frame) |->
        LET r == CHOOSE j \in 1..Len(frame) :
                    Cardinality({k \in 1..Len(frame) :
                        \/ frame[k].date < frame[j].date
                        \/ frame[k].date = frame[j].date /\ k < j}) = i - 1
        IN  frame[r]]

\* df['cases'].astype(float).fillna(0.0)
FillNa(frame) ==
    [i \in 1..Len(frame) |->
        [date |-> frame[i].date,
         cases |-> IF frame[i].cases = NaNCase THEN 0 ELSE frame[i].cases]]

\* Number of units per case in which the column I is held: every window
\* count 1..Min(win, n) divides it.
IUnit(win, n) == LcmUpTo(Min(win, n))

\* rolling(window, min_periods=1, center=True): the rows (1-based) that the
\* window of row i covers; offset = (window - 1) // 2, clipped to the frame.
WinLo(i, win, n) == Max(1, i + ((win - 1) \div 2) - win + 1)
WinHi(i, win, n) == Min(n, i + ((win - 1) \div 2))

\* .rolling(window, min_periods=1, center=True).mean(), in units of 1/IUnit
RollingMean(cases, win) ==
    LET n == Len(cases)
    IN  [i \in 1..n |->
            LET lo == WinLo(i, win, n)
                hi == WinHi(i, win, n)
            IN  SumSeq(SubSeq(cases, lo, hi)) * (IUnit(win, n) \div (hi - lo + 1))]

\* Mutant: round(5 * serial_interval), Python's round (half to even).
KMaxRounded(si) ==
    LET q == (5 * si) \div 10
        r == (5 * si) % 10
    IN  Max(1, IF r > 5 \/ (r = 5 /\ q % 2 = 1) THEN q + 1 ELSE q)

\* k_max = max(1, int(5 * serial_interval)); serial_interval in tenths
KMax(si) == Max(1, (5 * si) \div 10)

----------------------------------------------------------------------------
(* src/src/rt.py : estimate_rt, one iteration of the loop (lines 25-37) *)

\* Ipast = df['I'].values[max(0, t-k_max):t]
Ipast(col, tt, kmax) == SubSeq(col, Max(0, tt - kmax) + 1, tt)

\* w_trunc = w[-len(Ipast):]
WTrunc(wnum, len) == SubSeq(wnum, Len(wnum) - len + 1, Len(wnum))

\* denom = np.sum(w_trunc * Ipast[::-1]), in units of 1/(w.den * IUnit)
Denom(col, kern, tt, kmax) ==
    LET past == Ipast(col, tt, kmax)
    IN  Dot(WTrunc(kern.num, Len(past)), Reverse(past))

\* Mutant: the comparison is strict (denom < 1e-8).
VanishesStrict(d, kern, unit) == d < (kern.den * unit) \div TolInv

\* Mutant: the threshold is 1e8 instead of 1e-8.
VanishesLoose(d, kern, unit) == d \div TolInv <= kern.den * unit

\* denom <= 1e-8, for denom = d / (kern.den * unit)
Vanishes(d, kern, unit) == d <= (kern.den * unit) \div TolInv

\* Mutant: the first entry is 0.0 instead of NaN.
RtEntryFirstZero(col, kern, tt, kmax, unit) ==
    IF tt = 0 THEN Frac(0, 1)
    ELSE LET d == Denom(col, kern, tt, kmax)
         IN  IF Vanishes(d, kern, unit) THEN NaN
             ELSE Frac(col[tt + 1] * kern.den, d)

\* The value appended to Rt in iteration tt (0-based)
RtEntry(col, kern, tt, kmax, unit) ==
    IF tt = 0 THEN NaN
    ELSE LET d == Denom(col, kern, tt, kmax)
         IN  IF Vanishes(d, kern, unit) THEN NaN
             ELSE Frac(col[tt + 1] * kern.den, d)

\* estimate_rt as a function of its arguments (lines 17-43), for win >= 1
EstimateRt(frame, si, win) ==
    LET s == FillNa(SortValues(frame))
        col == RollingMean([i \in 1..Len(s) |-> s[i].cases], win)
        km == KMax(si)
        kern == DiscreteGammaPmf(km, si)
    IN  [i \in 1..Len(s) |->
            [date |-> s[i].date,
             R_t |-> RtEntry(col, kern, i - 1, km, IUnit(win, Len(s)))]]

\* Mutant: the frame is sorted in place and the columns are written into the
\* caller's frame.
RtCallerFrameInPlace(frame) == FillNa(SortValues(frame))

\* line 17: sort_values returns a new frame and .copy() detaches it, so the
\* columns 'cases' and 'I' of lines 18-19 are written into the local frame;
\* this is the caller's frame after them.
RtCallerFrame(frame) == frame

----------------------------------------------------------------------------
(* src/src/rt.py : estimate_rt as a state machine *)

Cases(frame) == [i \in 1..Len(frame) |-> frame[i].cases]

NoKernel == [num |-> <<>>, den |-> 1]

\* The frames the caller may pass: n >= 1 rows with distinct dates 1..n, in
\* increasing or in decreasing date order; a case value is a count or missing.
CaseVals == {NaNCase} \cup (0..MaxCase)

Frames ==
    UNION {
        {[i \in 1..n |-> [date |-> IF asc THEN i ELSE n + 1 - i, cases |-> c[i]]] :
            c \in [1..n -> CaseVals], asc \in BOOLEAN}
        : n \in 1..MaxLen}

\* The scenario of the specification: 7 days, serial interval 4.0, window 7.
ScenarioCases == <<100, 120, 90, 110, 95, 130, 140>>
ScenarioFrame == [i \in 1..7 |-> [date |-> i, cases |-> ScenarioCases[i]]]

RtIdle ==
    /\ sdf = <<>> /\ I = <<>> /\ k_max = 0 /\ w = NoKernel
    /\ t = 0 /\ Rt = <<>> /\ denom = <<>> /\ out = <<>>

SeirIdle ==
    /\ args = [N |-> 0, E0 |-> 0, I0 |-> 0, R0 |-> 0, beta |-> 0, sigma |-> 0,
               gamma |-> 0, days |-> 0]
    /\ seir_pc = "idle" /\ ret = <<>> /\ seir_out = <<>>

\* Each component is a call of its own: while one runs the others are idle.
RtOff ==
    /\ df = <<>> /\ serial_interval = 0 /\ window = 0 /\ rt_pc = "idle"
    /\ RtIdle

IvOff ==
    /\ iv_df = <<>> /\ effectiveness = 0 /\ iv_pc = "idle" /\ iv_out = <<>>

FcOff ==
    /\ fc_df = <<>> /\ horizon = 0 /\ country_name = "" /\ PROPHET_AVAILABLE = FALSE
    /\ fc_pc = "idle" /\ holidays = "none" /\ forecast = <<>> /\ fc_out = <<>>
    /\ model = <<>>

\* An empty DataFrame.
EmptyFrame == <<>>

WhoOff ==
    /\ who_country = "" /\ who_outcome = <<>> /\ who_pc = "idle" /\ who_i = 0
    /\ who_calls = <<>> /\ who_ret = EmptyFrame

HospOff ==
    /\ hosp_country = "" /\ jhu = "returns" /\ cases_df = EmptyFrame /\ hosp_pc = "idle"
    /\ hosp_i = 0 /\ rate = 0 /\ current_hospitalizations = 0 /\ current_icu = 0
    /\ hosp_data = <<>> /\ hosp_ret = EmptyFrame

NoException == [kind |-> "none", status_code |-> 0, detail |-> ""]

NoRequest ==
    [endpoint |-> "", fields |-> {}, dates |-> <<>>, cases |-> <<>>, horizon |-> 0,
     serial_interval |-> 0, window |-> 0, effectiveness |-> 0]

ApiOff ==
    /\ api_origin = "" /\ api_env = [PROPHET_AVAILABLE |-> FALSE, source |-> "empty"]
    /\ api_req = NoRequest /\ api_pc = "idle" /\ api_df = EmptyFrame /\ api_called = ""
    /\ api_exc = NoException /\ api_status = 0 /\ api_body = <<>> /\ dash_pc = "idle"

ExtOff == WhoOff /\ HospOff /\ ApiOff

RtInputs ==
    \/ /\ df \in Frames
       /\ serial_interval \in MeanSIs
       /\ window \in 0..MaxWin
    \/ /\ df = ScenarioFrame
       /\ serial_interval = 40
       /\ window = 7

InitRt ==
    /\ RtInputs
    /\ rt_pc = "start"
    /\ RtIdle
    /\ SeirIdle
    /\ IvOff
    /\ FcOff
    /\ ExtOff

\* line 19 with window < 1: rolling() raises ValueError, which estimate_rt
\* does not catch.
RtRollingRaises ==
    /\ rt_pc = "start"
    /\ window < 1
    /\ rt_pc' = "raised"
    /\ UNCHANGED <<df, serial_interval, window, sdf, I, k_max, w, t, Rt, denom, out>>
    /\ UNCHANGED <<seirVars, ivVars, fcVars, extVars>>

\* lines 17-24
RtPrepare ==
    /\ rt_pc = "start"
    /\ window >= 1
    /\ sdf' = FillNa(SortValues(df))
    /\ I' = RollingMean(Cases(sdf'), window)
    /\ k_max' = KMax(serial_interval)
    /\ w' = DiscreteGammaPmf(k_max', serial_interval)
    /\ t' = 0
    /\ Rt' = <<>>
    /\ denom' = <<>>
    /\ rt_pc' = "loop"
    /\ df' = RtCallerFrame(df)
    /\ UNCHANGED <<serial_interval, window, out>>
    /\ UNCHANGED <<seirVars, ivVars, fcVars, extVars>>

\* lines 25-37, one iteration
RtLoop ==
    /\ rt_pc = "loop"
    /\ t < Len(sdf)
    /\ Rt' = Append(Rt, RtEntry(I, w, t, k_max, IUnit(window, Len(sdf))))
    /\ denom' = Append(denom, IF t = 0 THEN 0 ELSE Denom(I, w, t, k_max))
    /\ t' = t + 1
    /\ UNCHANGED <<df, serial_interval, window, rt_pc, sdf, I, k_max, w, out>>
    /\ UNCHANGED <<seirVars, ivVars, fcVars, extVars>>

\* lines 39-43
RtReturn ==
    /\ rt_pc = "loop"
    /\ t = Len(sdf)
    /\ out' = [i \in 1..Len(sdf) |-> [date |-> sdf[i].date, R_t |-> Rt[i]]]
    /\ rt_pc' = "done"
    /\ UNCHANGED <<df, serial_interval, window, sdf, I, k_max, w, t, Rt, denom>>
    /\ UNCHANGED <<seirVars, ivVars, fcVars, extVars>>

NextRt == RtRollingRaises \/ RtPrepare \/ RtLoop \/ RtReturn

SpecRt == InitRt /\ [][NextRt]_vars

----------------------------------------------------------------------------
(* src/src/seir.py : seir_ode and simulate_seir                            *)
(*                                                                         *)
(* Compartments are whole head-counts; a rate is a fraction [num, den].    *)
(* Each of the three flows of the vector field (beta*S*I/N, sigma*E,       *)
(* gamma*I) is evaluated to a whole number, the same wherever the          *)
(* expression occurs. odeint is modelled as a fixed-step explicit          *)
(* integrator taking SubSteps steps of 1/SubSteps day between two output   *)
(* times; a step of length h of this vector field is the vector field with *)
(* its three rates multiplied by h.                                        *)
(***************************************************************************)

Rate(n, d) == [num |-> n, den |-> d]

\* Mutant: the removed compartment gains gamma * R instead of gamma * I.
SeirOdeLeaky(y, N, beta, sigma, gamma) ==
    LET S == y[1]
        E == y[2]
        Inf == y[3]
        R == y[4]
    IN  << 0 - ((beta.num * S * Inf) \div (beta.den * N)),
           ((beta.num * S * Inf) \div (beta.den * N)) - ((sigma.num * E) \div sigma.den),
           ((sigma.num * E) \div sigma.den) - ((gamma.num * Inf) \div gamma.den),
           (gamma.num * R) \div gamma.den >>

\* Mutant: the susceptible compartment loses beta * S instead of beta*S*I/N.
SeirOdeOverdrawn(y, N, beta, sigma, gamma) ==
    LET S == y[1]
        E == y[2]
        Inf == y[3]
    IN  << 0 - ((beta.num * N) \div beta.den),
           ((beta.num * N) \div beta.den) - ((sigma.num * E) \div sigma.den),
           ((sigma.num * E) \div sigma.den) - ((gamma.num * Inf) \div gamma.den),
           (gamma.num * Inf) \div gamma.den >>

\* Mutant: the exposed compartment gains sigma * E instead of losing it.
SeirOdeSignSlip(y, N, beta, sigma, gamma) ==
    LET S == y[1]
        E == y[2]
        Inf == y[3]
    IN  << 0 - ((beta.num * S * Inf) \div (beta.den * N)),
           ((beta.num * S * Inf) \div (beta.den * N)) + ((sigma.num * E) \div sigma.den),
           ((sigma.num * E) \div sigma.den) - ((gamma.num * Inf) \div gamma.den),
           (gamma.num * Inf) \div gamma.den >>

\* seir_ode(y, t, N, beta, sigma, gamma): (dSdt, dEdt, dIdt, dRdt)
SeirOde(y, N, beta, sigma, gamma) ==
    LET S == y[1]
        E == y[2]
        Inf == y[3]
    IN  << 0 - ((beta.num * S * Inf) \div (beta.den * N)),
           ((beta.num * S * Inf) \div (beta.den * N)) - ((sigma.num * E) \div sigma.den),
           ((sigma.num * E) \div sigma.den) - ((gamma.num * Inf) \div gamma.den),
           (gamma.num * Inf) \div gamma.den >>

\* One integrator step of length 1/SubSteps day.
OdeStep(y, a) ==
    LET h(r) == Rate(r.num, r.den * SubSteps)
        dy == SeirOde(y, a.N, h(a.beta), h(a.sigma), h(a.gamma))
    IN  [c \in 1..4 |-> y[c] + dy[c]]

RECURSIVE OdeAdvance(_, _, _)
OdeAdvance(y, a, steps) ==
    IF steps = 0 THEN y ELSE OdeAdvance(OdeStep(y, a), a, steps - 1)

\* Mutant: the initial susceptibles are the whole population.
InitialStateWholeN(a) == <<a.N, a.E0, a.I0, a.R0>>

\* S0 = N - E0 - I0 - R0; y0 = S0, E0, I0, R0
InitialState(a) == <<a.N - a.E0 - a.I0 - a.R0, a.E0, a.I0, a.R0>>

\* Mutant: t = np.arange(0, days), one point short.
TimePointsShort(a) == [i \in 1..a.days |-> i - 1]

\* t = np.arange(0, days+1)
TimePoints(a) == [i \in 1..(a.days + 1) |-> i - 1]

\* Mutant: np.diff(I, prepend=I[0]) without the maximum.
NewCasesUnclipped(Icol) ==
    [i \in 1..Len(Icol) |-> IF i = 1 THEN 0 ELSE Icol[i] - Icol[i - 1]]

\* np.maximum(0.0, np.diff(I, prepend=I[0]))
NewCases(Icol) ==
    [i \in 1..Len(Icol) |-> IF i = 1 THEN 0 ELSE Max(0, Icol[i] - Icol[i - 1])]

Column(rows, c) == [i \in 1..Len(rows) |-> rows[i][c]]

\* The arguments the model draws; sets with E0 + I0 + R0 > N and with
\* beta = 0 are among them.
SeirArgs ==
    [N : {100, 1000}, E0 : {0, 100}, I0 : {0, 50}, R0 : {0, 30},
     beta : {Rate(0, 10), Rate(3, 10), Rate(15, 10)}, sigma : {Rate(2, 10), Rate(10, 10)},
     gamma : {Rate(1, 10), Rate(5, 10)}, days : 0..MaxDays]

\* The scenario of the specification.
ScenarioArgs ==
    [N |-> 1000, E0 |-> 10, I0 |-> 5, R0 |-> 0, beta |-> Rate(3, 10),
     sigma |-> Rate(2, 10), gamma |-> Rate(1, 10), days |-> 0]

ValidArgs(a) == a.E0 + a.I0 + a.R0 >= 0 /\ a.N >= a.E0 + a.I0 + a.R0

InitSeir ==
    /\ args \in SeirArgs \cup {ScenarioArgs}
    /\ seir_pc = "start"
    /\ ret = <<>>
    /\ seir_out = <<>>
    /\ RtOff
    /\ IvOff
    /\ FcOff
    /\ ExtOff

\* lines 14-16 and the first row of odeint's result, which is y0
SeirStart ==
    /\ seir_pc = "start"
    /\ ret' = <<InitialState(args)>>
    /\ seir_pc' = "odeint"
    /\ UNCHANGED <<args, seir_out>>
    /\ UNCHANGED <<rtVars, ivVars, fcVars, extVars>>

\* line 17: odeint advances to the next time point of t
SeirIntegrate ==
    /\ seir_pc = "odeint"
    /\ Len(ret) < Len(TimePoints(args))
    /\ ret' = Append(ret, OdeAdvance(ret[Len(ret)], args, SubSteps))
    /\ UNCHANGED <<args, seir_pc, seir_out>>
    /\ UNCHANGED <<rtVars, ivVars, fcVars, extVars>>

\* lines 18-29
SeirReturn ==
    /\ seir_pc = "odeint"
    /\ Len(ret) >= Len(TimePoints(args))
    /\ seir_out' = [t |-> TimePoints(args),
                    S |-> Column(ret, 1), E |-> Column(ret, 2),
                    I |-> Column(ret, 3), R |-> Column(ret, 4),
                    new_cases_proxy |-> NewCases(Column(ret, 3)),
                    date |-> TimePoints(args)]
    /\ seir_pc' = "done"
    /\ UNCHANGED <<args, ret>>
    /\ UNCHANGED <<rtVars, ivVars, fcVars, extVars>>

NextSeir == SeirStart \/ SeirIntegrate \/ SeirReturn

SpecSeir == InitSeir /\ [][NextSeir]_vars

----------------------------------------------------------------------------
(* src/src/analysis.py : analyze_intervention_impact                       *)
(*                                                                         *)
(* effectiveness is held in tenths; the two returned series are held in    *)
(* units of 1/(10 * IUnit(7, n)) cases.                                    *)
(***************************************************************************)

InterventionWindow == 7

\* df['cases'].rolling(window=7, min_periods=1, center=True).mean(), in
\* units of 1/IUnit(7, n); the rows are taken in the caller's order
SmoothedCases(frame) == RollingMean(Cases(frame), InterventionWindow)

\* Mutant: the factor is (1 + effectiveness).
InterventionCasesAmplified(sm, eff) ==
    [i \in 1..Len(sm) |-> Max(0, sm[i] * (10 + eff))]

\* Mutant: the factor is effectiveness instead of (1 - effectiveness).
InterventionCasesScaledByEff(sm, eff) ==
    [i \in 1..Len(sm) |-> Max(0, sm[i] * eff)]

\* (smoothed_cases * (1 - effectiveness)).clip(lower=0)
InterventionCases(sm, eff) ==
    [i \in 1..Len(sm) |-> Max(0, sm[i] * (10 - eff))]

\* A frame of 9 days, longer than the window.
LongCases == <<0, 3, 1, 4, 1, 5, 9, 2, 6>>
LongFrame == [i \in 1..9 |-> [date |-> i, cases |-> LongCases[i]]]

\* Frames without missing values (the caller drops such rows).
CleanFrames == {f \in Frames : \A i \in 1..Len(f) : f[i].cases # NaNCase}

InitIv ==
    /\ iv_df \in CleanFrames \cup {ScenarioFrame, LongFrame}
    /\ effectiveness \in 0..10
    /\ iv_pc = "start"
    /\ iv_out = <<>>
    /\ RtOff
    /\ SeirIdle
    /\ FcOff
    /\ ExtOff

\* lines 9-18
IvAnalyze ==
    /\ iv_pc = "start"
    /\ iv_out' = [dates |-> [i \in 1..Len(iv_df) |-> iv_df[i].date],
                  original_cases |-> [i \in 1..Len(iv_df) |-> 10 * SmoothedCases(iv_df)[i]],
                  intervention_cases |->
                      InterventionCases(SmoothedCases(iv_df), effectiveness)]
    /\ iv_pc' = "done"
    /\ UNCHANGED <<iv_df, effectiveness>>
    /\ UNCHANGED <<rtVars, seirVars, fcVars, extVars>>

NextIv == IvAnalyze

SpecIv == InitIv /\ [][NextIv]_vars

----------------------------------------------------------------------------
(* src/src/forecast.py : fit_forecast, get_seasonality_components and      *)
(* _simple_forecast                                                        *)
(*                                                                         *)
(* Dates are day numbers. The fallback's values are exact fractions: the   *)
(* least-squares slope is [num, den] and the rows of its forecast are held *)
(* in units of 1/unit, unit = 10 * den. The Prophet model's rows have      *)
(* unit 1.                                                                 *)
(***************************************************************************)

TailLen == 30
SeasonalityPeriods == 365
SeasonalityRows == 7

MaxDate(frame) == CHOOSE d \in Dates(frame) : \A e \in Dates(frame) : e <= d

\* Mutant: frame.head(k)
HeadOf(rows, k) == SubSeq(rows, 1, Min(k, Len(rows)))

\* frame.tail(k)
TailOf(rows, k) == SubSeq(rows, Max(1, Len(rows) - k + 1), Len(rows))

RECURSIVE SumTo(_, _)
\* sum of f[1..n]
SumTo(f, n) == IF n = 0 THEN 0 ELSE f[n] + SumTo(f, n - 1)

\* np.polyfit(days, cases, 1)[0] for days = 0..m-1: the least-squares slope
\* (m*Sxy - Sx*Sy) / (m*Sxx - Sx*Sx), as a fraction
PolyfitSlope(y) ==
    LET m == Len(y)
        Sx == SumTo([i \in 1..m |-> i - 1], m)
        Sy == SumTo(y, m)
        Sxx == SumTo([i \in 1..m |-> (i - 1) * (i - 1)], m)
        Sxy == SumTo([i \in 1..m |-> (i - 1) * y[i]], m)
    IN  [num |-> m * Sxy - Sx * Sy, den |-> m * Sxx - Sx * Sx]

\* Mutant: the trend is fitted to the whole frame.
TrendOfAll(frame) ==
    LET recent == Cases(frame)
    IN  IF Len(recent) > 1
        THEN [slope |-> PolyfitSlope(recent), intercept |-> recent[Len(recent)]]
        ELSE [slope |-> [num |-> 0, den |-> 1],
              intercept |-> IF Len(recent) > 0 THEN recent[1] ELSE 0]

\* lines 83-92: slope and intercept of the trend over df.tail(30)
Trend(frame) ==
    LET recent == Cases(TailOf(frame, TailLen))
    IN  IF Len(recent) > 1
        THEN [slope |-> PolyfitSlope(recent), intercept |-> recent[Len(recent)]]
        ELSE [slope |-> [num |-> 0, den |-> 1],
              intercept |-> IF Len(recent) > 0 THEN recent[1] ELSE 0]

\* Mutant: intercept + slope * (i+1) without the max.
ForecastValueUnclamped(tr, k) == tr.intercept * tr.slope.den + tr.slope.num * k

\* line 99: max(0, intercept + slope * (i+1)), in units of 1/slope.den
ForecastValue(tr, k) == Max(0, tr.intercept * tr.slope.den + tr.slope.num * k)

\* _simple_forecast(df, horizon)
SimpleForecast(frame, h) ==
    LET tr == Trend(frame)
        last_date == MaxDate(frame)
        forecast_dates == [i \in 1..h |-> last_date + i]
        forecast_values == [i \in 1..h |-> ForecastValue(tr, i)]
    IN  [forecast_df |->
            [i \in 1..h |->
                [date |-> forecast_dates[i],
                 mean |-> 10 * forecast_values[i],
                 lower_95 |-> Max(0, 8 * forecast_values[i]),
                 upper_95 |-> 12 * forecast_values[i]]],
         seasonality_df |->
            [ds |-> SubSeq(forecast_dates, 1, Min(SeasonalityRows, h)), columns |-> {}],
         unit |-> 10 * tr.slope.den]

\* Mutant: the daily seasonality is switched on as well.
ProphetModelDaily ==
    [kind |-> "Prophet", yearly_seasonality |-> TRUE, weekly_seasonality |-> TRUE,
     daily_seasonality |-> TRUE]

\* lines 19-23: the one model fit_forecast builds, with fixed settings
ProphetModel ==
    [kind |-> "Prophet", yearly_seasonality |-> TRUE, weekly_seasonality |-> TRUE,
     daily_seasonality |-> FALSE]

\* Countries for which add_country_holidays succeeds.
KnownCountries == {"IN"}

\* Prophet.fit raises ValueError on a frame with fewer than 2 rows.
FitRaises(frame) == Len(frame) < 2

\* model.make_future_dataframe(periods): the history dates in increasing
\* order and the `periods` days that follow the last of them
FutureDates(frame, periods) ==
    LET history == SortValues(frame)
        last == MaxDate(frame)
    IN  [i \in 1..(Len(frame) + periods) |->
            IF i <= Len(frame) THEN history[i].date ELSE last + (i - Len(frame))]

\* What model.predict may give for a future day: (yhat_lower, yhat, yhat_upper),
\* the bounds on either side of yhat; any of them may be negative.
PredTriples == {<<0 - 3, 0 - 1, 2>>, <<1, 2, 4>>, <<0 - 5, 0 - 3, 0 - 1>>}

\* model.predict(future): one row per date of `future`. A history row is given
\* the observed value; a future row any element of PredTriples.
Predictions(frame, periods) ==
    LET ds == FutureDates(frame, periods)
        history == SortValues(frame)
        n == Len(frame)
    IN  {[i \in 1..(n + periods) |->
            IF i <= n
            THEN [ds |-> ds[i], yhat |-> history[i].cases,
                  yhat_lower |-> history[i].cases - 1,
                  yhat_upper |-> history[i].cases + 1]
            ELSE [ds |-> ds[i], yhat |-> p[i - n][2],
                  yhat_lower |-> p[i - n][1], yhat_upper |-> p[i - n][3]]]
         : p \in [1..periods -> PredTriples]}

\* Mutant: the columns are renamed and not clipped.
ForecastDfUnclipped(pred) ==
    [i \in 1..Len(pred) |->
        [date |-> pred[i].ds, mean |-> pred[i].yhat,
         lower_95 |-> pred[i].yhat_lower, upper_95 |-> pred[i].yhat_upper]]

\* lines 37-42: rename the columns, clip mean, lower_95 and upper_95 at 0
ForecastDf(pred) ==
    [i \in 1..Len(pred) |->
        [date |-> pred[i].ds, mean |-> Max(0, pred[i].yhat),
         lower_95 |-> Max(0, pred[i].yhat_lower),
         upper_95 |-> Max(0, pred[i].yhat_upper)]]

\* get_seasonality_components(model)
SeasonalityComponents(frame) ==
    [ds |-> FutureDates(frame, SeasonalityPeriods), columns |-> {"weekly", "yearly"}]

\* A rising and a steeply falling frame of 32 days, longer than the tail the
\* trend is fitted to; the first two days are off the trend of the last 30.
RisingFrame == [i \in 1..32 |-> [date |-> i, cases |-> IF i <= 2 THEN 60 ELSE i]]
FallingFrame == [i \in 1..32 |-> [date |-> i, cases |-> IF i <= 2 THEN 0 ELSE 3 * (33 - i)]]

\* The predictions of the Prophet model are drawn whatever the case values
\* are, so with Prophet the model draws the constant frames only.
ConstantFrames ==
    {f \in CleanFrames : \A i \in 1..Len(f) : f[i].cases = f[1].cases}

InitFc ==
    /\ PROPHET_AVAILABLE \in BOOLEAN
    /\ fc_df \in IF PROPHET_AVAILABLE
                THEN ConstantFrames \cup {RisingFrame}
                ELSE CleanFrames \cup {RisingFrame, FallingFrame}
    /\ horizon \in 1..MaxHorizon
    /\ country_name \in {"", "IN", "Atlantis"}
    /\ fc_pc = "start"
    /\ model = <<>>
    /\ holidays = "none"
    /\ forecast = <<>>
    /\ fc_out = <<>>
    /\ RtOff
    /\ SeirIdle
    /\ IvOff
    /\ ExtOff

\* Mutant: the column 'days' is written into the caller's frame.
FcCallerFrameInPlace(frame) ==
    [i \in 1..Len(frame) |->
        [date |-> frame[i].date, cases |-> frame[i].cases, days |-> i - 1]]

\* lines 83-84: df.tail(30).copy() detaches recent_data, so the column 'days'
\* is written into the copy; this is the caller's frame after them.
FcCallerFrame(frame) == frame

\* lines 13-15: Prophet could not be imported
FcSimple ==
    /\ fc_pc = "start"
    /\ ~PROPHET_AVAILABLE
    /\ fc_out' = SimpleForecast(fc_df, horizon)
    /\ fc_pc' = "done"
    /\ fc_df' = FcCallerFrame(fc_df)
    /\ UNCHANGED <<horizon, country_name, PROPHET_AVAILABLE, model, holidays, forecast>>
    /\ UNCHANGED <<rtVars, seirVars, ivVars, extVars>>

\* lines 25-29: a failure of add_country_holidays is caught
AddCountryHolidays(name) ==
    IF name = "" THEN "none" ELSE IF name \in KnownCountries THEN "added" ELSE "failed"

\* lines 17-31, model.fit succeeds
FcFit ==
    /\ fc_pc = "start"
    /\ PROPHET_AVAILABLE
    /\ ~FitRaises(fc_df)
    /\ model' = Append(model, ProphetModel)
    /\ holidays' = AddCountryHolidays(country_name)
    /\ fc_pc' = "fitted"
    /\ UNCHANGED <<fc_df, horizon, country_name, PROPHET_AVAILABLE, forecast, fc_out>>
    /\ UNCHANGED <<rtVars, seirVars, ivVars, extVars>>

\* lines 17-31, model.fit raises: nothing in fit_forecast catches it
FcFitRaises ==
    /\ fc_pc = "start"
    /\ PROPHET_AVAILABLE
    /\ FitRaises(fc_df)
    /\ model' = Append(model, ProphetModel)
    /\ holidays' = AddCountryHolidays(country_name)
    /\ fc_pc' = "raised"
    /\ UNCHANGED <<fc_df, horizon, country_name, PROPHET_AVAILABLE, forecast, fc_out>>
    /\ UNCHANGED <<rtVars, seirVars, ivVars, extVars>>

\* lines 33-34
FcPredict ==
    /\ fc_pc = "fitted"
    /\ forecast' \in Predictions(fc_df, horizon)
    /\ fc_pc' = "predicted"
    /\ UNCHANGED <<fc_df, horizon, country_name, PROPHET_AVAILABLE, model, holidays, fc_out>>
    /\ UNCHANGED <<rtVars, seirVars, ivVars, extVars>>

\* lines 37-47
FcReturn ==
    /\ fc_pc = "predicted"
    /\ fc_out' = [forecast_df |-> TailOf(ForecastDf(forecast), horizon),
                  seasonality_df |-> SeasonalityComponents(fc_df),
                  unit |-> 1]
    /\ fc_pc' = "done"
    /\ UNCHANGED <<fc_df, horizon, country_name, PROPHET_AVAILABLE, model, holidays, forecast>>
    /\ UNCHANGED <<rtVars, seirVars, ivVars, extVars>>

NextFc == FcSimple \/ FcFit \/ FcFitRaises \/ FcPredict \/ FcReturn

SpecFc == InitFc /\ [][NextFc]_vars

----------------------------------------------------------------------------
(* src/src/ingest.py : get_who_data (lines 47-67)                          *)
(*                                                                         *)
(* A source, when called, raises, returns an empty frame or returns a      *)
(* table; a table is a frame of one row that names the source it is from.  *)
(***************************************************************************)

\* lines 52-56: the list `sources`
Sources == <<"_get_who_official_data", "_get_who_github_data", "_get_owid_who_data">>

SourceOutcomes == {"raises", "empty", "table"}

\* What source i returns when it does not raise.
SourceFrame(i, outcome, country) ==
    IF outcome = "table" THEN <<[source |-> Sources[i], country |-> country]>>
    ELSE EmptyFrame

\* Mutant: the call of the source is not inside a try block.
AfterSourceUncaught(outcome) ==
    IF outcome = "raises" THEN "raise"
    ELSE IF outcome = "table" THEN "return" ELSE "continue"

\* lines 59-65: what the loop body does after the call of a source: a raised
\* exception is caught and the loop continues, a non-empty frame is returned,
\* an empty one falls through to the next source.
AfterSource(outcome) ==
    IF outcome = "raises" THEN "continue"
    ELSE IF outcome = "table" THEN "return" ELSE "continue"

InitWho ==
    /\ who_country \in {"India", "Atlantis"}
    /\ who_outcome \in [1..Len(Sources) -> SourceOutcomes]
    /\ who_pc = "loop"
    /\ who_i = 1
    /\ who_calls = <<>>
    /\ who_ret = EmptyFrame
    /\ RtOff
    /\ SeirIdle
    /\ IvOff
    /\ FcOff
    /\ HospOff
    /\ ApiOff

\* lines 58-65, one iteration of the loop over the sources
WhoTry ==
    /\ who_pc = "loop"
    /\ who_i <= Len(Sources)
    /\ who_calls' = Append(who_calls, Sources[who_i])
    /\ LET after == AfterSource(who_outcome[who_i])
       IN  /\ who_pc' = IF after = "return" THEN "done"
                        ELSE IF after = "raise" THEN "raised" ELSE "loop"
           /\ who_ret' = IF after = "return"
                         THEN SourceFrame(who_i, who_outcome[who_i], who_country)
                         ELSE who_ret
           /\ who_i' = IF after = "continue" THEN who_i + 1 ELSE who_i
    /\ UNCHANGED <<who_country, who_outcome>>
    /\ UNCHANGED <<rtVars, seirVars, ivVars, fcVars, hospVars, apiVars>>

\* line 67: every source was tried
WhoExhausted ==
    /\ who_pc = "loop"
    /\ who_i > Len(Sources)
    /\ who_ret' = EmptyFrame
    /\ who_pc' = "done"
    /\ UNCHANGED <<who_country, who_outcome, who_i, who_calls>>
    /\ UNCHANGED <<rtVars, seirVars, ivVars, fcVars, hospVars, apiVars>>

NextWho == WhoTry \/ WhoExhausted

SpecWho == InitWho /\ [][NextWho]_vars

----------------------------------------------------------------------------
(* src/src/hospitalizations.py : get_hospitalization_data (lines 5-140)    *)
(*                                                                         *)
(* The rate is held in percent. A hospital quantity is held in units of    *)
(* 1/HospUnit and an ICU quantity in units of 1/IcuUnit, in which every    *)
(* product of a case count with rate, rate * 0.5, rate * 0.9,              *)
(* rate * 0.25, rate * 0.25 * 0.5 and rate * 0.25 * 0.85 is whole.         *)
(***************************************************************************)

HospUnit == 1000
IcuUnit == 8000
AdmissionLag == 5
hospital_stay_days == 8
icu_stay_days == 6
SmoothWindow == 3

\* lines 24-43: hospitalization_rates.get(country.lower(), default), percent
HospitalizationRate(country) ==
    IF country \in {"India", "india"} THEN 12
    ELSE IF country \in {"Japan", "japan"} THEN 4
    ELSE 6

\* Python's round(): to the nearest whole number, a half to the even one
Round(n, unit) ==
    LET q == n \div unit
        r == n % unit
    IN  IF 2 * r > unit \/ (2 * r = unit /\ q % 2 = 1) THEN q + 1 ELSE q

\* cases_df.iloc[k]['cases'], k 0-based
CasesAt(frame, k) == frame[k + 1].cases

\* Mutant: the admissions lag behind the cases by hospital_stay_days.
NewAdmissionsLate(frame, i, pct, perCase) ==
    IF i >= hospital_stay_days
    THEN Max(0, CasesAt(frame, i - hospital_stay_days)) * pct * perCase
    ELSE Max(0, CasesAt(frame, i)) * pct * (perCase \div 2)

\* lines 61-70: new admissions of day i; perCase is the number of units one
\* case contributes per percent of rate (10 for the hospital, 20 for the ICU)
NewAdmissions(frame, i, pct, perCase) ==
    IF i >= AdmissionLag
    THEN Max(0, CasesAt(frame, i - AdmissionLag)) * pct * perCase
    ELSE Max(0, CasesAt(frame, i)) * pct * (perCase \div 2)

\* Mutant: discharges are counted from the first day on.
DischargesFromStart(frame, i, pct, stay, perCase) ==
    CasesAt(frame, Max(0, i - stay)) * pct * perCase

\* lines 77-87: discharges of day i; perCase is 9 for the hospital (90% of
\* rate) and 17 for the ICU (85% of rate * 0.25)
Discharges(frame, i, pct, stay, perCase) ==
    IF i >= stay THEN CasesAt(frame, Max(0, i - stay)) * pct * perCase ELSE 0

\* lines 113-114: rolling(window=3, min_periods=1).mean() of a column of
\* whole numbers, in units of 1/6
TrailingMean(col) ==
    [i \in 1..Len(col) |->
        LET lo == Max(1, i - SmoothWindow + 1)
        IN  SumSeq(SubSeq(col, lo, i)) * (6 \div (i - lo + 1))]

\* lines 104-136: the frame returned after the loop
HospResult(data) ==
    LET hosp == TrailingMean([i \in 1..Len(data) |-> data[i].hospitalizations])
        icu == TrailingMean([i \in 1..Len(data) |-> data[i].icu])
    IN  IF data = <<>> \/ (SumSeq(hosp) = 0 /\ SumSeq(icu) = 0) THEN EmptyFrame
        ELSE [i \in 1..Len(data) |->
                [date |-> data[i].date, hospitalizations |-> hosp[i], icu |-> icu[i]]]

\* The frames get_jhu_data returns: daily cases, clipped at 0, on the
\* consecutive days 1..n; empty when the country is not found.
MaxHospLen == 9
HospCaseVals == {0, 25 * MaxCase}
JhuFrames ==
    UNION {{[i \in 1..n |-> [date |-> i, cases |-> c[i]]] : c \in [1..n -> HospCaseVals]}
           : n \in 0..MaxHospLen}

InitHosp ==
    /\ hosp_country \in {"India", "japan", "Atlantis"}
    /\ \/ jhu = "returns" /\ cases_df \in JhuFrames
       \/ jhu = "raises" /\ cases_df = EmptyFrame
    /\ hosp_pc = "start"
    /\ hosp_i = 0
    /\ rate = 0
    /\ current_hospitalizations = 0
    /\ current_icu = 0
    /\ hosp_data = <<>>
    /\ hosp_ret = EmptyFrame
    /\ RtOff
    /\ SeirIdle
    /\ IvOff
    /\ FcOff
    /\ WhoOff
    /\ ApiOff

\* lines 12-19 and 138-140: get_jhu_data raised or found nothing
HospNoCases ==
    /\ hosp_pc = "start"
    /\ jhu = "raises" \/ cases_df = EmptyFrame
    /\ hosp_ret' = EmptyFrame
    /\ hosp_pc' = "done"
    /\ UNCHANGED <<hosp_country, jhu, cases_df, hosp_i, rate, current_hospitalizations,
                   current_icu, hosp_data>>
    /\ UNCHANGED <<rtVars, seirVars, ivVars, fcVars, whoVars, apiVars>>

\* lines 16-57
HospStart ==
    /\ hosp_pc = "start"
    /\ jhu = "returns"
    /\ cases_df # EmptyFrame
    /\ rate' = HospitalizationRate(hosp_country)
    /\ hosp_data' = <<>>
    /\ current_hospitalizations' = 0
    /\ current_icu' = 0
    /\ hosp_i' = 0
    /\ hosp_pc' = "loop"
    /\ UNCHANGED <<hosp_country, jhu, cases_df, hosp_ret>>
    /\ UNCHANGED <<rtVars, seirVars, ivVars, fcVars, whoVars, apiVars>>

\* lines 59-98, one iteration
HospDay ==
    /\ hosp_pc = "loop"
    /\ hosp_i < Len(cases_df)
    /\ LET new_hospitalizations == NewAdmissions(cases_df, hosp_i, rate, 10)
           new_icu == NewAdmissions(cases_df, hosp_i, rate, 20)
           hospital_discharges ==
               Discharges(cases_df, hosp_i, rate, hospital_stay_days, 9)
           icu_discharges == Discharges(cases_df, hosp_i, rate, icu_stay_days, 17)
       IN  /\ current_hospitalizations' =
                 Max(0, current_hospitalizations + new_hospitalizations - hospital_discharges)
           /\ current_icu' = Max(0, current_icu + new_icu - icu_discharges)
           /\ hosp_data' = Append(hosp_data,
                 [date |-> cases_df[hosp_i + 1].date,
                  hospitalizations |-> Round(current_hospitalizations', HospUnit),
                  icu |-> Round(current_icu', IcuUnit),
                  new_admissions |-> Round(new_hospitalizations, HospUnit)])
    /\ hosp_i' = hosp_i + 1
    /\ UNCHANGED <<hosp_country, jhu, cases_df, hosp_pc, rate, hosp_ret>>
    /\ UNCHANGED <<rtVars, seirVars, ivVars, fcVars, whoVars, apiVars>>

\* lines 100-136
HospReturn ==
    /\ hosp_pc = "loop"
    /\ hosp_i = Len(cases_df)
    /\ hosp_ret' = HospResult(hosp_data)
    /\ hosp_pc' = "done"
    /\ UNCHANGED <<hosp_country, jhu, cases_df, hosp_i, rate, current_hospitalizations,
                   current_icu, hosp_data>>
    /\ UNCHANGED <<rtVars, seirVars, ivVars, fcVars, whoVars, apiVars>>

NextHosp == HospNoCases \/ HospStart \/ HospDay \/ HospReturn

SpecHosp == InitHosp /\ [][NextHosp]_vars

----------------------------------------------------------------------------
(* src/api/main.py : the endpoints; src/app/streamlit_app.py : the requests *)
(* of the dashboard and the fields it reads                                *)
(*                                                                         *)
(* A request carries the keys of its JSON body (fields) and the values of  *)
(* the keys the analytics endpoints use. A date is a day number; a case    *)
(* value is a count, NaNCase (NaN) or NegCase (a negative number).         *)
(***************************************************************************)

NegCase == 0 - 2
MaxHorizonDays == 365

\* The routes of the application (the POST routes, lines 85-229)
Routes ==
    {"/ingest/jhu", "/ingest/who", "/forecast", "/rt", "/analyze_intervention",
     "/hospitalizations"}

AnalyticsRoutes == {"/forecast", "/rt", "/analyze_intervention"}

\* lines 38-56: the keys a request model requires (those without a default)
RequiredFields(endpoint) ==
    IF endpoint = "/forecast" THEN {"dates", "cases", "horizon"}
    ELSE IF endpoint = "/rt" THEN {"dates", "cases"}
    ELSE IF endpoint = "/analyze_intervention" THEN {"dates", "cases", "effectiveness"}
    ELSE {"country"}

\* lines 59-81: validate_time_series_data, the pair (df, error_msg); the
\* comparison case < 0 is false of NaN, and dropna removes the NaN rows
ValidateTimeSeriesData(dates, cases) ==
    IF Len(dates) # Len(cases)
    THEN [df |-> EmptyFrame, error_msg |-> "Dates and cases arrays must have the same length"]
    ELSE IF Len(dates) = 0
    THEN [df |-> EmptyFrame, error_msg |-> "No data provided"]
    ELSE IF \E i \in 1..Len(cases) : cases[i] # NaNCase /\ cases[i] < 0
    THEN [df |-> EmptyFrame, error_msg |-> "Cases cannot be negative"]
    ELSE LET kept == SelectSeq([i \in 1..Len(dates) |-> [date |-> dates[i], cases |-> cases[i]]],
                               LAMBDA row : row.cases # NaNCase)
         IN  IF kept = <<>>
             THEN [df |-> EmptyFrame, error_msg |-> "No valid data after cleaning"]
             ELSE [df |-> kept, error_msg |-> ""]

\* line 137
HorizonOutOfRange(h) == h <= 0 \/ h > MaxHorizonDays

\* Mutant: the window is compared with the number of dates sent.
WindowOutOfRangeOfRequest(win, frame, dates) == win <= 0 \/ win > Len(dates)

\* line 177
WindowOutOfRange(win, frame, dates) == win <= 0 \/ win > Len(frame)

\* lines 132-138, 169-178, 205-211: the detail of the HTTPException(400) the
\* handler raises before it computes anything, "" if it raises none
RequestError(req) ==
    LET v == ValidateTimeSeriesData(req.dates, req.cases)
    IN  IF v.error_msg # "" THEN v.error_msg
        ELSE IF req.endpoint = "/forecast"
        THEN IF HorizonOutOfRange(req.horizon)
             THEN "Horizon must be between 1 and 365 days" ELSE ""
        ELSE IF req.endpoint = "/rt"
        THEN IF req.serial_interval <= 0 THEN "Serial interval must be positive"
             ELSE IF WindowOutOfRange(req.window, v.df, req.dates)
             THEN "Window must be between 1 and len(df)" ELSE ""
        ELSE IF ~(0 <= req.effectiveness /\ req.effectiveness <= 10)
             THEN "Effectiveness must be between 0 and 1" ELSE ""

HTTPException(code, msg) == [kind |-> "HTTPException", status_code |-> code, detail |-> msg]
OtherException(msg) == [kind |-> "Exception", status_code |-> 0, detail |-> msg]

\* Mutant: the handler has the generic except clause only.
StatusOfGenericOnly(exc) == 500

\* The except clauses of a handler (lines 158-162, 194-198, 223-227): an
\* HTTPException is raised again as it is, any other exception becomes
\* HTTPException(500); the status of the response is the exception's.
StatusOf(exc) == IF exc.kind = "HTTPException" THEN exc.status_code ELSE 500

ColumnOf(rows, unit, field) == [i \in 1..Len(rows) |-> Frac(rows[i][field], unit)]

\* lines 144-153: the body of the /forecast response
ForecastBody(rows, unit, seasonality) ==
    [forecast_dates |-> [i \in 1..Len(rows) |-> rows[i].date],
     forecast_mean |-> ColumnOf(rows, unit, "mean"),
     lower_95 |-> ColumnOf(rows, unit, "lower_95"),
     upper_95 |-> ColumnOf(rows, unit, "upper_95"),
     seasonality |-> seasonality]

\* line 141: what fit_forecast returns on the server, as response bodies; the
\* empty set when it raises
ForecastBodies(frame, h, prophet) ==
    IF ~prophet
    THEN LET sf == SimpleForecast(frame, h)
         IN  {ForecastBody(sf.forecast_df, sf.unit, sf.seasonality_df)}
    ELSE IF FitRaises(frame) THEN {}
    ELSE {ForecastBody(TailOf(ForecastDf(pred), h), 1, SeasonalityComponents(frame)) :
            pred \in Predictions(frame, h)}

\* lines 181-189: the body of the /rt response
RtBody(frame, si, win) ==
    LET rt_df == EstimateRt(frame, si, win)
    IN  [dates |-> [i \in 1..Len(rt_df) |-> rt_df[i].date],
         rt |-> [i \in 1..Len(rt_df) |-> rt_df[i].R_t]]

\* lines 214-221: the body of the /analyze_intervention response
InterventionBody(frame, eff) ==
    [dates |-> [i \in 1..Len(frame) |-> frame[i].date],
     original_cases |-> [i \in 1..Len(frame) |-> 10 * SmoothedCases(frame)[i]],
     intervention_cases |-> InterventionCases(SmoothedCases(frame), eff)]

\* The function of src/src an analytics handler calls.
CoreFunction(endpoint) ==
    IF endpoint = "/forecast" THEN "fit_forecast"
    ELSE IF endpoint = "/rt" THEN "estimate_rt" ELSE "analyze_intervention_impact"

\* The bodies the handler of an analytics endpoint may return for a
\* validated frame; the empty set when the function it calls raises.
ComputedBodies(req, frame, env) ==
    IF req.endpoint = "/forecast"
    THEN ForecastBodies(frame, req.horizon, env.PROPHET_AVAILABLE)
    ELSE IF req.endpoint = "/rt"
    THEN {RtBody(frame, req.serial_interval, req.window)}
    ELSE {InterventionBody(frame, req.effectiveness)}

Req(endpoint, fields, dates, cases, h, si, win, eff) ==
    [endpoint |-> endpoint, fields |-> fields, dates |-> dates, cases |-> cases,
     horizon |-> h, serial_interval |-> si, window |-> win, effectiveness |-> eff]

\* The requests of a client that sends well-typed bodies: up to MaxApiLen
\* dates and cases, in any order and with repeats, the parameters inside and
\* outside their ranges.
MaxApiLen == 2
DateLists == UNION {[1..n -> 1..2] : n \in 0..MaxApiLen}
CaseLists == UNION {[1..n -> {NegCase, NaNCase, 0, MaxCase}] : n \in 0..MaxApiLen}

ClientRequests ==
    {Req("/forecast", {"dates", "cases", "horizon"}, d, c, h, 0, 0, 0) :
        d \in DateLists, c \in CaseLists, h \in {0, MaxHorizon, MaxHorizonDays + 1}}
    \cup
    {Req("/rt", {"dates", "cases", "serial_interval", "window"}, d, c, 0, x[1], x[2], 0) :
        d \in DateLists, c \in CaseLists, x \in {0 - 5, 0, 5} \X (0..MaxWin)}
    \cup
    {Req("/analyze_intervention", {"dates", "cases", "effectiveness"}, d, c, 0, 0, 0, e) :
        d \in DateLists, c \in CaseLists, e \in {0 - 1, 0, 5, 10, 11}}

\* The buttons of the dashboard that send a request.
Buttons ==
    {"Fetch WHO", "Fetch JHU", "Run Forecast", "Estimate Rt", "Run SEIR Simulation"}

\* The frame the dashboard holds: sorted by date (streamlit_app.py line 65).
DashDates == <<1, 2, 3>>
DashCases == <<1, 2, 1>>
DashHorizon == 7
DashWindow == 3
DashSerialInterval == 10

\* streamlit_app.py lines 36-40, 82-88, 116-123, 158-169: the requests a
\* button may send
DashRequests(button) ==
    IF button = "Fetch WHO"
    THEN {Req("/ingest/who", f, <<>>, <<>>, 0, 0, 0, 0) : f \in {{"country"}, {"iso2"}}}
    ELSE IF button = "Fetch JHU"
    THEN {Req("/ingest/jhu", {"country", "kind"}, <<>>, <<>>, 0, 0, 0, 0)}
    ELSE IF button = "Run Forecast"
    THEN {Req("/forecast", {"dates", "cases", "horizon"}, DashDates, DashCases,
              DashHorizon, 0, 0, 0)}
    ELSE IF button = "Estimate Rt"
    THEN {Req("/rt", {"dates", "cases", "serial_interval", "window"}, DashDates, DashCases,
              0, DashSerialInterval, DashWindow, 0)}
    ELSE {Req("/seir_simulate",
              {"population", "initial_exposed", "initial_infected", "initial_removed",
               "beta", "sigma", "gamma", "days"}, <<>>, <<>>, 0, 0, 0, 0)}

\* streamlit_app.py lines 43-47, 91-98, 126-131, 172-179: the keys of the
\* response the dashboard subscripts
FieldsRead(button) ==
    IF button \in {"Fetch WHO", "Fetch JHU"} THEN {"dates", "cases", "deaths"}
    ELSE IF button = "Run Forecast"
    THEN {"forecast_dates", "forecast_mean", "lower_80", "upper_80", "lower_95", "upper_95"}
    ELSE IF button = "Estimate Rt" THEN {"dates", "rt", "rt_low", "rt_high"}
    ELSE {"date", "S", "E", "I", "R", "new_cases_proxy"}

InitApi ==
    /\ \/ /\ api_origin = "client"
          /\ api_req \in ClientRequests
          /\ api_env \in [PROPHET_AVAILABLE : BOOLEAN, source : {"empty"}]
          /\ dash_pc = "idle"
       \/ /\ api_origin \in Buttons
          /\ api_req \in DashRequests(api_origin)
          /\ api_env \in [PROPHET_AVAILABLE : BOOLEAN,
                          source : IF api_origin \in {"Fetch WHO", "Fetch JHU"}
                                   THEN {"table", "empty", "raises"} ELSE {"empty"}]
          /\ dash_pc = "waiting"
    /\ api_pc = "received"
    /\ api_df = EmptyFrame
    /\ api_called = ""
    /\ api_exc = NoException
    /\ api_status = 0
    /\ api_body = <<>>
    /\ RtOff
    /\ SeirIdle
    /\ IvOff
    /\ FcOff
    /\ WhoOff
    /\ HospOff

ApiRespondsError(exc) ==
    /\ api_exc' = exc
    /\ api_status' = StatusOf(exc)
    /\ api_body' = [detail |-> exc.detail]
    /\ api_pc' = "responded"

\* No route of the application has the path of the request.
ApiNotFound ==
    /\ api_pc = "received"
    /\ api_req.endpoint \notin Routes
    /\ ApiRespondsError(HTTPException(404, "Not Found"))
    /\ UNCHANGED <<api_origin, api_env, api_req, api_df, api_called, dash_pc>>
    /\ UNCHANGED <<rtVars, seirVars, ivVars, fcVars, whoVars, hospVars>>

\* The body lacks a key the request model requires (lines 38-56).
ApiUnprocessable ==
    /\ api_pc = "received"
    /\ api_req.endpoint \in Routes
    /\ ~(RequiredFields(api_req.endpoint) \subseteq api_req.fields)
    /\ ApiRespondsError(HTTPException(422, "Field required"))
    /\ UNCHANGED <<api_origin, api_env, api_req, api_df, api_called, dash_pc>>
    /\ UNCHANGED <<rtVars, seirVars, ivVars, fcVars, whoVars, hospVars>>

\* lines 132-138, 169-178, 205-211 with a check that fails
ApiReject ==
    /\ api_pc = "received"
    /\ api_req.endpoint \in AnalyticsRoutes
    /\ RequiredFields(api_req.endpoint) \subseteq api_req.fields
    /\ RequestError(api_req) # ""
    /\ ApiRespondsError(HTTPException(400, RequestError(api_req)))
    /\ UNCHANGED <<api_origin, api_env, api_req, api_df, api_called, dash_pc>>
    /\ UNCHANGED <<rtVars, seirVars, ivVars, fcVars, whoVars, hospVars>>

\* lines 132-140, 169-180, 205-213 with every check passed
ApiValidated ==
    /\ api_pc = "received"
    /\ api_req.endpoint \in AnalyticsRoutes
    /\ RequiredFields(api_req.endpoint) \subseteq api_req.fields
    /\ RequestError(api_req) = ""
    /\ api_df' = ValidateTimeSeriesData(api_req.dates, api_req.cases).df
    /\ api_pc' = "validated"
    /\ UNCHANGED <<api_origin, api_env, api_req, api_called, api_exc, api_status, api_body,
                   dash_pc>>
    /\ UNCHANGED <<rtVars, seirVars, ivVars, fcVars, whoVars, hospVars>>

\* lines 141-162, 181-198, 214-227: the call and the response
ApiCompute ==
    /\ api_pc = "validated"
    /\ api_called' = CoreFunction(api_req.endpoint)
    /\ LET bodies == ComputedBodies(api_req, api_df, api_env)
       IN  IF bodies = {}
           THEN ApiRespondsError(OtherException("Dataframe has less than 2 non-NaN rows."))
           ELSE /\ api_body' \in bodies
                /\ api_status' = 200
                /\ api_pc' = "responded"
                /\ UNCHANGED api_exc
    /\ UNCHANGED <<api_origin, api_env, api_req, api_df, dash_pc>>
    /\ UNCHANGED <<rtVars, seirVars, ivVars, fcVars, whoVars, hospVars>>

\* lines 85-125: /ingest/jhu and /ingest/who
ApiIngest ==
    /\ api_pc = "received"
    /\ api_req.endpoint \in {"/ingest/jhu", "/ingest/who"}
    /\ RequiredFields(api_req.endpoint) \subseteq api_req.fields
    /\ api_called' = IF api_req.endpoint = "/ingest/jhu" THEN "get_jhu_data"
                     ELSE "get_who_data"
    /\ IF api_env.source = "table"
       THEN /\ api_body' = [dates |-> DashDates, cases |-> DashCases, deaths |-> <<0, 0, 0>>]
            /\ api_status' = 200
            /\ api_pc' = "responded"
            /\ UNCHANGED api_exc
       ELSE IF api_env.source = "raises" /\ api_req.endpoint = "/ingest/jhu"
       THEN ApiRespondsError(OtherException("Connection refused"))
       ELSE ApiRespondsError(HTTPException(404, "No data found"))
    /\ UNCHANGED <<api_origin, api_env, api_req, api_df, dash_pc>>
    /\ UNCHANGED <<rtVars, seirVars, ivVars, fcVars, whoVars, hospVars>>

\* streamlit_app.py lines 41-52, 89-108, 124-140, 170-195: raise_for_status,
\* then the subscripts of the body; any exception ends in st.exception
DashRead ==
    /\ api_pc = "responded"
    /\ dash_pc = "waiting"
    /\ dash_pc' = IF api_status >= 400 THEN "error"
                  ELSE IF FieldsRead(api_origin) \subseteq DOMAIN api_body THEN "rendered"
                  ELSE "error"
    /\ UNCHANGED <<api_origin, api_env, api_req, api_pc, api_df, api_called, api_exc,
                   api_status, api_body>>
    /\ UNCHANGED <<rtVars, seirVars, ivVars, fcVars, whoVars, hospVars>>

NextApi ==
    \/ ApiNotFound
    \/ ApiUnprocessable
    \/ ApiReject
    \/ ApiValidated
    \/ ApiCompute
    \/ ApiIngest
    \/ DashRead

SpecApi == InitApi /\ [][NextApi]_vars

----------------------------------------------------------------------------
(* The functions that are handed the caller's frame: estimate_rt (on frames *)
(* shorter than MaxLen), analyze_intervention_impact and fit_forecast      *)

InitCalls == (InitRt /\ Len(df) < MaxLen) \/ InitIv \/ InitFc

NextCalls == NextRt \/ NextIv \/ NextFc

SpecCalls == InitCalls /\ [][NextCalls]_vars

----------------------------------------------------------------------------
(* All components *)

Init == InitRt \/ InitSeir \/ InitIv \/ InitFc \/ InitWho \/ InitHosp \/ InitApi

Next == NextRt \/ NextSeir \/ NextIv \/ NextFc \/ NextWho \/ NextHosp \/ NextApi

Spec == Init /\ [][Next]_vars

----------------------------------------------------------------------------
(* Properties of estimate_rt and _discrete_gamma_pmf *)

RtBuilt == rt_pc \in {"loop", "done"}

MinDate(frame) == CHOOSE d \in Dates(frame) : \A e \in Dates(frame) : d <= e

RenewalSum(col, kern, tt, kmax) ==
    SumSeq([i \in 1..Min(tt, kmax) |-> kern.num[i] * col[tt - i + 1]])

\* C2: for every day t >= 1 the denominator the loop computes is the sum over
\* lags i = 1..min(t, k_max) of weight_i * I[t-i].
C2_DenomIsRenewalSum ==
    \A i \in 2..Len(denom) : denom[i] = RenewalSum(I, w, i - 1, k_max)

\* C3: for every day t >= 1 the entry of R_t is NaN exactly when the
\* denominator computed for that day is <= 1e-8 and is I[t] / denom otherwise,
\* whatever the other days' denominators are; and estimate_rt does not raise.
C3_UndefinedIffDenomVanishes ==
    /\ window >= 1 => rt_pc # "raised"
    /\ RtBuilt =>
          /\ Len(denom) = Len(Rt)
          /\ \A i \in 2..Len(Rt) :
                \* denom[i] / (w.den * IUnit) <= 1 / TolInv, denom[i] an integer
                IF denom[i] <= (w.den * IUnit(window, Len(sdf))) \div TolInv
                THEN Rt[i] = NaN
                ELSE Rt[i] = Frac(I[i] * w.den, denom[i])
    /\ rt_pc = "done" => \A i \in 1..Len(out) : out[i].R_t = Rt[i]

C3_Witness ==
    /\ rt_pc = "done"
    /\ \E i \in 2..Len(out) : \E j \in (i + 1)..Len(out) :
          /\ denom[i] = 0 /\ ~out[i].R_t.def
          /\ denom[j] > 0 /\ out[j].R_t.def

AllPositive(frame) == \A i \in 1..Len(frame) : frame[i].cases >= 1

\* C4: every defined entry of the returned R_t is a non-negative finite value,
\* and for a series whose case counts are all positive every entry but the
\* first is defined.
C4_DefinedEntriesFinite ==
    rt_pc = "done" =>
        /\ \A i \in 1..Len(out) :
              out[i].R_t.def => out[i].R_t.num >= 0 /\ out[i].R_t.den > 0
        /\ AllPositive(df) => \A i \in 2..Len(out) : out[i].R_t.def

C4_Witness ==
    /\ rt_pc = "done"
    /\ df = ScenarioFrame
    /\ ~out[1].R_t.def
    /\ \A i \in 2..7 : out[i].R_t.def /\ out[i].R_t.num > 0

\* C5: the kernel has k_max entries, none negative, and they sum to 1; it is
\* all zero only when the un-normalized mass sums to 0.
C5_KernelNormalized ==
    RtBuilt =>
        /\ Len(w.num) = k_max
        /\ w.den > 0
        /\ \A i \in 1..k_max : w.num[i] >= 0
        /\ \/ SumSeq(w.num) = w.den
           \/ /\ \A i \in 1..k_max : w.num[i] = 0
              /\ SumSeq(RawPmf(k_max, serial_interval)) = 0

C5_Witness ==
    /\ RtBuilt
    /\ k_max >= 5
    /\ \A i \in 1..k_max : w.num[i] > 0 /\ w.num[i] < w.den

\* C6 as stated: the kernel length is 5 * mean_interval rounded to the nearest
\* integer (at least 1).
C6_KMaxRounded ==
    RtBuilt => k_max = KMaxRounded(serial_interval) /\ Len(w.num) = k_max

\* C6 amended: the kernel length is 5 * mean_interval truncated to an integer
\* (at least 1): k_max <= 5 * mean_interval < k_max + 1 when that is >= 1.
C6_KMaxTruncated ==
    RtBuilt =>
        /\ Len(w.num) = k_max
        /\ k_max >= 1
        /\ 5 * serial_interval < 10 => k_max = 1
        /\ 5 * serial_interval >= 10 =>
              /\ 10 * k_max <= 5 * serial_interval
              /\ 5 * serial_interval < 10 * (k_max + 1)

C6_Witness ==
    /\ RtBuilt
    /\ serial_interval = 15
    /\ k_max = 7
    /\ Len(w.num) = 7

----------------------------------------------------------------------------
(* Properties of simulate_seir *)

Rows(o) == 1..Len(o.t)

\* C7: for valid arguments the four compartments sum to N at every time point
\* of the integration and of the returned trajectory.
C7_PopulationConserved ==
    ValidArgs(args) =>
        /\ \A i \in 1..Len(ret) : ret[i][1] + ret[i][2] + ret[i][3] + ret[i][4] = args.N
        /\ seir_pc = "done" =>
              \A i \in Rows(seir_out) :
                  seir_out.S[i] + seir_out.E[i] + seir_out.I[i] + seir_out.R[i] = args.N

C7_Witness ==
    /\ seir_pc = "done"
    /\ ValidArgs(args)
    /\ args.days >= 2
    /\ seir_out.S[args.days + 1] < seir_out.S[1]
    /\ seir_out.R[args.days + 1] > seir_out.R[1]

\* C8: for valid arguments none of S, E, I, R is negative at any time point,
\* although simulate_seir clips nothing.
C8_CompartmentsNonNegative ==
    ValidArgs(args) =>
        /\ \A i \in 1..Len(ret) : \A c \in 1..4 : ret[i][c] >= 0
        /\ seir_pc = "done" =>
              \A i \in Rows(seir_out) :
                  /\ seir_out.S[i] >= 0 /\ seir_out.E[i] >= 0
                  /\ seir_out.I[i] >= 0 /\ seir_out.R[i] >= 0

C8_Witness ==
    /\ seir_pc = "done"
    /\ ValidArgs(args)
    /\ args.days >= 2
    /\ seir_out.S[1] = 0
    /\ seir_out.E[args.days + 1] < seir_out.E[1]
    /\ seir_out.I[args.days + 1] > 0

\* C9: the returned trajectory has days + 1 points, at t = 0, 1, ..., days, and
\* its point at t = 0 is (N - E0 - I0 - R0, E0, I0, R0).
C9_TrajectoryShape ==
    seir_pc = "done" =>
        /\ Len(seir_out.t) = args.days + 1
        /\ \A i \in 1..(args.days + 1) : seir_out.t[i] = i - 1
        /\ Len(seir_out.S) = args.days + 1 /\ Len(seir_out.E) = args.days + 1
        /\ Len(seir_out.I) = args.days + 1 /\ Len(seir_out.R) = args.days + 1
        /\ Len(seir_out.new_cases_proxy) = args.days + 1
        /\ seir_out.S[1] = args.N - args.E0 - args.I0 - args.R0
        /\ seir_out.E[1] = args.E0
        /\ seir_out.I[1] = args.I0
        /\ seir_out.R[1] = args.R0

C9_Witness ==
    /\ seir_pc = "done"
    /\ args = ScenarioArgs
    /\ seir_out.t = <<0>>
    /\ seir_out.S = <<985>> /\ seir_out.E = <<10>>
    /\ seir_out.I = <<5>> /\ seir_out.R = <<0>>

\* C10: when E0 + I0 + R0 > N, simulate_seir reports an input-validation error
\* before any integration: odeint takes no step from y0 and no trajectory is
\* returned.
C10_NegativeS0Rejected ==
    (seir_pc # "idle" /\ args.E0 + args.I0 + args.R0 > args.N) =>
        /\ seir_pc # "done"
        /\ Len(ret) <= 1
        /\ seir_out = <<>>

NoTransmission == seir_pc = "done" /\ ValidArgs(args) /\ args.beta.num = 0

C12_NewCasesProxy ==
    seir_pc = "done" =>
        /\ Len(seir_out.new_cases_proxy) = Len(seir_out.I)
        /\ seir_out.new_cases_proxy[1] = 0
        /\ \A i \in 2..Len(seir_out.I) :
              /\ seir_out.new_cases_proxy[i] >= 0
              /\ seir_out.I[i] > seir_out.I[i - 1] =>
                    seir_out.new_cases_proxy[i] = seir_out.I[i] - seir_out.I[i - 1]
              /\ seir_out.I[i] <= seir_out.I[i - 1] =>
                    seir_out.new_cases_proxy[i] = 0

C12_Witness ==
    /\ seir_pc = "done"
    /\ \E i \in 2..Len(seir_out.I) : \E j \in 2..Len(seir_out.I) :
          /\ seir_out.I[i] > seir_out.I[i - 1] /\ seir_out.new_cases_proxy[i] > 0
          /\ seir_out.I[j] < seir_out.I[j - 1] /\ seir_out.new_cases_proxy[j] = 0

----------------------------------------------------------------------------
(* Properties of analyze_intervention_impact *)

\* Sum of the cases of rows lo..hi of a frame.
RECURSIVE CasesBetween(_, _, _)
CasesBetween(frame, lo, hi) ==
    IF lo > hi THEN 0 ELSE frame[lo].cases + CasesBetween(frame, lo + 1, hi)

\* C13: for non-negative cases and effectiveness in [0,1], at every index
\* 0 <= intervention_cases <= original_cases, and original_cases is the mean
\* of the cases of the rows at most 3 before and at most 3 after that index.
C13_CounterfactualBelowOriginal ==
    iv_pc = "done" =>
        LET n == Len(iv_df)
            unit == 10 * IUnit(InterventionWindow, n)
        IN  /\ Len(iv_out.original_cases) = n
            /\ Len(iv_out.intervention_cases) = n
            /\ \A i \in 1..n :
                  LET lo == Max(1, i - 3)
                      hi == Min(n, i + 3)
                  IN  /\ iv_out.original_cases[i] * (hi - lo + 1)
                            = unit * CasesBetween(iv_df, lo, hi)
                      /\ iv_out.intervention_cases[i] >= 0
                      /\ iv_out.intervention_cases[i] <= iv_out.original_cases[i]

C13_Witness ==
    /\ iv_pc = "done"
    /\ Len(iv_df) >= 8
    /\ effectiveness \in 1..9
    /\ \A i \in 1..Len(iv_df) :
          /\ iv_out.intervention_cases[i] > 0
          /\ iv_out.intervention_cases[i] < iv_out.original_cases[i]

\* C14: effectiveness 0 returns intervention_cases equal to original_cases at
\* every index, effectiveness 1 returns 0 at every index, and the three lists
\* returned are as long as the input.
C14_EffectivenessExtremes ==
    iv_pc = "done" =>
        /\ Len(iv_out.dates) = Len(iv_df)
        /\ Len(iv_out.original_cases) = Len(iv_df)
        /\ Len(iv_out.intervention_cases) = Len(iv_df)
        /\ effectiveness = 0 => iv_out.intervention_cases = iv_out.original_cases
        /\ effectiveness = 10 =>
              \A i \in 1..Len(iv_df) : iv_out.intervention_cases[i] = 0

C14_Witness ==
    /\ iv_pc = "done"
    /\ effectiveness = 10
    /\ Len(iv_df) >= 5
    /\ \A i \in 1..Len(iv_df) : iv_out.original_cases[i] > 0
    /\ \A i \in 1..Len(iv_df) : iv_out.intervention_cases[i] = 0

----------------------------------------------------------------------------
(* Properties of fit_forecast and _simple_forecast *)

FcRows == fc_out.forecast_df

\* The call returned through _simple_forecast: Prophet made no prediction.
TookFallback == fc_pc = "done" /\ forecast = <<>>

\* C15: the forecast returned has exactly horizon rows, dated the horizon
\* consecutive days that follow the last observed date; none is a day of the
\* history.
C15_HorizonRows ==
    fc_pc = "done" =>
        /\ Len(FcRows) = horizon
        /\ \A i \in 1..Len(FcRows) :
              /\ FcRows[i].date = MaxDate(fc_df) + i
              /\ FcRows[i].date \notin Dates(fc_df)

C15_Witness ==
    /\ fc_pc = "done"
    /\ forecast # <<>>
    /\ Len(fc_df) >= 3
    /\ fc_df[1].date # 1
    /\ horizon >= 2
    /\ Len(FcRows) = horizon

\* C16: every value returned (point estimate, lower and upper bound of every
\* forecasted day) is >= 0, on the model path and on the fallback path.
C16_ForecastNonNegative ==
    fc_pc = "done" =>
        \A i \in 1..Len(FcRows) :
            /\ FcRows[i].mean >= 0
            /\ FcRows[i].lower_95 >= 0
            /\ FcRows[i].upper_95 >= 0

C16_Witness ==
    /\ TookFallback
    /\ fc_df = FallingFrame
    /\ horizon >= 2
    /\ Trend(fc_df).slope.num < 0
    /\ Trend(fc_df).intercept > 0
    /\ FcRows[horizon].mean = 0

\* C17: every forecasted day carries two nested intervals,
\* lower_95 <= lower_80 <= mean <= upper_80 <= upper_95.
C17_NestedIntervals ==
    fc_pc = "done" =>
        \A i \in 1..Len(FcRows) :
            /\ {"lower_80", "upper_80", "lower_95", "upper_95", "mean"}
                  \subseteq DOMAIN FcRows[i]
            /\ FcRows[i].lower_95 <= FcRows[i].lower_80
            /\ FcRows[i].lower_80 <= FcRows[i].mean
            /\ FcRows[i].mean <= FcRows[i].upper_80
            /\ FcRows[i].upper_80 <= FcRows[i].upper_95

\* C18: the forecaster never raises.
C18_NeverRaises == fc_pc # "raised"

DateOrdered(frame) ==
    \A i \in 1..Len(frame) : \A j \in 1..Len(frame) :
        i < j => frame[i].date < frame[j].date

\* C19: on the fallback path, for a date-ordered frame, the point forecast of
\* step k is max(0, last_value + slope * k), slope being the least-squares
\* slope over the last 30 observations (all if fewer, 0 if only one) and
\* last_value the most recent observation; the bounds are 0.8 and 1.2 times
\* the point forecast.
C19_LinearTrendFallback ==
    (TookFallback /\ DateOrdered(fc_df)) =>
        LET n == Len(fc_df)
            m == Min(30, n)
            y(j) == fc_df[n - m + j].cases
            last == fc_df[n].cases
            Sx == (m * (m - 1)) \div 2
            Sxx == ((m - 1) * m * (2 * m - 1)) \div 6
            Sy == SumTo([j \in 1..m |-> y(j)], m)
            Sxy == SumTo([j \in 1..m |-> (j - 1) * y(j)], m)
            \* slope = slopeNum / slopeDen
            slopeNum == IF m > 1 THEN m * Sxy - Sx * Sy ELSE 0
            slopeDen == IF m > 1 THEN m * Sxx - Sx * Sx ELSE 1
        IN  /\ slopeDen > 0
            /\ fc_out.unit = 10 * slopeDen
            /\ \A k \in 1..horizon :
                  /\ FcRows[k].mean = 10 * Max(0, last * slopeDen + slopeNum * k)
                  /\ 10 * FcRows[k].lower_95 = 8 * FcRows[k].mean
                  /\ 10 * FcRows[k].upper_95 = 12 * FcRows[k].mean

C19_Witness ==
    /\ TookFallback
    /\ fc_df = RisingFrame
    /\ horizon >= 2
    /\ FcRows[1].mean = 33 * fc_out.unit
    /\ FcRows[2].mean = 34 * fc_out.unit

\* C20: for a degenerate series (constant zero, fewer than 2 rows) the
\* forecaster takes the fallback path and returns horizon rows, all >= 0.
C20_DegenerateFallsBack ==
    (fc_pc # "idle" /\ Len(fc_df) < 2 /\ \A i \in 1..Len(fc_df) : fc_df[i].cases = 0) =>
        /\ fc_pc # "raised"
        /\ fc_pc = "done" =>
              /\ forecast = <<>>
              /\ Len(FcRows) = horizon
              /\ \A i \in 1..Len(FcRows) :
                    FcRows[i].mean >= 0 /\ FcRows[i].lower_95 >= 0 /\ FcRows[i].upper_95 >= 0

----------------------------------------------------------------------------
(* Properties of the calls as a whole *)

\* C24 as stated: called with a window outside [1, series length],
\* estimate_rt does not raise and returns a series of the input length whose
\* entries are all undefined.
C24_BadWindowAllUndefined ==
    (rt_pc \in {"loop", "done", "raised"} /\ (window < 1 \/ window > Len(df))) =>
        /\ rt_pc # "raised"
        /\ rt_pc = "done" =>
              /\ Len(out) = Len(df)
              /\ \A i \in 1..Len(out) : ~out[i].R_t.def

RtSeriesFrom(s, col) ==
    [i \in 1..Len(s) |->
        [date |-> s[i].date,
         R_t |-> RtEntry(col, w, i - 1, k_max, IUnit(window, Len(s)))]]

RtSeriesOf(p) ==
    RtSeriesFrom(FillNa(SortValues(p)), RollingMean(Cases(FillNa(SortValues(p))), window))

\* The rows of the caller's frame in date order, a missing case read as 0:
\* row i is the row with exactly i - 1 earlier dates.
RowsByDate ==
    [i \in 1..Len(df) |->
        LET r == CHOOSE row \in {df[j] : j \in 1..Len(df)} :
                    Cardinality({j \in 1..Len(df) : df[j].date < row.date}) = i - 1
        IN  [date |-> r.date, cases |-> IF r.cases = NaNCase THEN 0 ELSE r.cases]]

\* C26: estimate_rt works on the rows in date order with missing cases read
\* as 0, a frame that depends on the set of rows only and not on their
\* order and that sorting and filling again leaves as it is, and the series
\* returned is the one the reversed frame gives.
C26_OrderInsensitive ==
    rt_pc = "done" =>
        /\ sdf = RowsByDate
        /\ FillNa(SortValues(sdf)) = sdf
        /\ RtSeriesOf(Reverse(df)) = out
        /\ \A i \in 1..Len(out) : \A j \in 1..Len(out) :
              i < j => out[i].date < out[j].date
        /\ \A i \in 1..Len(sdf) : sdf[i].cases # NaNCase

C26_Witness ==
    /\ rt_pc = "done"
    /\ Len(df) >= 3
    /\ df[1].date > df[2].date
    /\ \E i \in 1..Len(df) : df[i].cases = NaNCase
    /\ \E i \in 2..Len(out) : out[i].R_t.def

----------------------------------------------------------------------------
(* Properties of get_who_data *)

\* Index of the first source that yields a table, Len(Sources) + 1 if none does.
FirstTable ==
    IF \E i \in 1..Len(who_outcome) : who_outcome[i] = "table"
    THEN CHOOSE i \in 1..Len(who_outcome) :
            /\ who_outcome[i] = "table"
            /\ \A j \in 1..(i - 1) : who_outcome[j] # "table"
    ELSE Len(who_outcome) + 1

\* C27: the sources are called in the order official WHO, GitHub mirror,
\* OWID; the call returns the table of the first source that yields one and
\* calls no source after it; a source that raises or returns an empty table
\* is skipped; when none yields a table the result is an empty table; the
\* call never raises.
C27_FirstSourceWins ==
    /\ who_pc # "raised"
    /\ Len(who_calls) <= 3
    /\ \A i \in 1..Len(who_calls) :
          who_calls[i] = <<"_get_who_official_data", "_get_who_github_data",
                           "_get_owid_who_data">>[i]
    /\ who_pc = "done" =>
          IF FirstTable <= 3
          THEN /\ Len(who_calls) = FirstTable
               /\ Len(who_ret) = 1
               /\ who_ret[1].source = who_calls[FirstTable]
          ELSE /\ Len(who_calls) = 3
               /\ who_ret = <<>>

C27_Witness ==
    /\ who_pc = "done"
    /\ who_outcome = <<"raises", "empty", "table">>
    /\ Len(who_calls) = 3
    /\ who_ret # <<>>

----------------------------------------------------------------------------
(* Properties of get_hospitalization_data *)

\* Cases of day k (0-based) of the frame the occupancy is computed from.
DayCases(k) == cases_df[k + 1].cases

\* C29: in every iteration (day i, 0-based) the new hospital and ICU
\* occupancies are max(0, previous + admissions - discharges) and are never
\* negative, nor are the recorded values; admissions are the rate times the
\* cases of 5 days earlier, or half the rate times the day's own cases while
\* i < 5; hospital discharges are 0 before day 8 and ICU discharges 0 before
\* day 6.
C29_OccupancyNonNegative ==
    [][(hosp_pc = "loop" /\ hosp_i' = hosp_i + 1) =>
        LET i == hosp_i
            pct == HospitalizationRate(hosp_country)
            admitted == IF i >= 5 THEN DayCases(i - 5) * 2 ELSE DayCases(i)
            hospOut == IF i >= 8 THEN DayCases(i - 8) * pct * 9 ELSE 0
            icuOut == IF i >= 6 THEN DayCases(i - 6) * pct * 17 ELSE 0
        IN  /\ current_hospitalizations' =
                  Max(0, current_hospitalizations + admitted * pct * 5 - hospOut)
            /\ current_icu' = Max(0, current_icu + admitted * pct * 10 - icuOut)
            /\ current_hospitalizations' >= 0
            /\ current_icu' >= 0
            /\ hosp_data'[i + 1].hospitalizations >= 0
            /\ hosp_data'[i + 1].icu >= 0
            /\ (i < 8 => current_hospitalizations' >= current_hospitalizations)
            /\ (i < 6 => current_icu' >= current_icu)
    ]_vars

C29_Witness ==
    /\ hosp_pc = "done"
    /\ Len(cases_df) = 9
    /\ cases_df[1].cases > 0
    /\ cases_df[4].cases = 0
    /\ cases_df[9].cases = 0
    /\ Len(hosp_data) = 9
    /\ hosp_data[9].hospitalizations < hosp_data[8].hospitalizations
    /\ hosp_ret # <<>>

----------------------------------------------------------------------------
(* Properties of the API and of the dashboard *)

Responded == api_pc = "responded"

\* Number of rows left once the rows without a case value are dropped.
RowsAfterCleaning(req) ==
    Cardinality({i \in 1..Len(req.cases) : req.cases[i] # NaNCase})

\* C22: a request to /forecast, /rt or /analyze_intervention whose dates and
\* cases differ in length, or with a negative case value, or with horizon
\* outside [1,365], window outside [1, rows after cleaning],
\* serial_interval <= 0 or effectiveness outside [0,1], is answered with
\* status 400 and none of estimate_rt, fit_forecast and
\* analyze_intervention_impact is called for it.
C22_InvalidRequestRejected ==
    LET req == api_req
        bad ==
            \/ Len(req.dates) # Len(req.cases)
            \/ \E i \in 1..Len(req.cases) : req.cases[i] < 0 /\ req.cases[i] # NaNCase
            \/ req.endpoint = "/forecast" /\ (req.horizon < 1 \/ req.horizon > 365)
            \/ req.endpoint = "/rt" /\ req.serial_interval <= 0
            \/ req.endpoint = "/rt"
                  /\ (req.window < 1 \/ req.window > RowsAfterCleaning(req))
            \/ req.endpoint = "/analyze_intervention"
                  /\ (req.effectiveness < 0 \/ req.effectiveness > 10)
    IN  (api_origin = "client" /\ bad) =>
            /\ api_called = ""
            /\ api_pc # "validated"
            /\ Responded => api_status = 400

C22_Witness ==
    /\ Responded
    /\ api_status = 400
    /\ api_called = ""
    /\ api_req.endpoint = "/rt"
    /\ api_req.serial_interval > 0
    /\ api_req.dates = <<1, 2>>
    /\ api_req.cases = <<NaNCase, 0>>
    /\ api_req.window = 2

\* C23: a request whose series (the rows that have a case value) has dates
\* that are not strictly increasing, out of order or repeated, is answered
\* with an input error and no function is called for it.
C23_UnorderedDatesRejected ==
    (/\ api_origin = "client"
     /\ Len(api_req.dates) = Len(api_req.cases)
     /\ \E i \in 1..Len(api_req.dates) : \E j \in 1..Len(api_req.dates) :
            /\ i < j
            /\ api_req.cases[i] # NaNCase
            /\ api_req.cases[j] # NaNCase
            /\ api_req.dates[i] >= api_req.dates[j]) =>
        /\ api_called = ""
        /\ Responded => api_status = 400

\* C28: in /forecast, /rt and /analyze_intervention an HTTPException raised
\* inside the handler reaches the client with its own status (400 for a
\* validation failure, raised before anything is called); status 500 is
\* given only to another exception, raised by the function called.
C28_ValidationStays400 ==
    (Responded /\ api_req.endpoint \in {"/forecast", "/rt", "/analyze_intervention"}) =>
        /\ api_exc.kind = "HTTPException" => api_status = api_exc.status_code
        /\ (api_exc.kind = "HTTPException" /\ api_exc.status_code = 400) =>
              api_status = 400 /\ api_called = ""
        /\ api_status = 500 => api_exc.kind = "Exception" /\ api_called # ""
        /\ api_exc.kind = "Exception" => api_status = 500
        /\ api_exc.kind = "none" => api_status = 200

C28_Witness ==
    /\ Responded
    /\ api_req.endpoint = "/forecast"
    /\ api_req.horizon = 366
    /\ api_req.dates = <<1, 2>>
    /\ api_req.cases = <<0, 0>>
    /\ api_exc.kind = "HTTPException"
    /\ api_status = 400

\* C30: every request of the dashboard finds its route, has the keys the
\* route requires, and the body of a successful response has every key the
\* dashboard reads.
C30_DashboardServed ==
    (api_origin \in Buttons /\ Responded) =>
        /\ api_status # 422
        /\ ~(api_status = 404 /\ api_exc.detail = "Not Found")
        /\ api_status = 200 =>
              /\ FieldsRead(api_origin) \subseteq DOMAIN api_body
              /\ dash_pc # "error"

====
